---- MODULE Spec2Model ----
(***************************************************************************)
(* Tensors as strided views over shared storages, as exercised by the      *)
(* notebook 02_on_tensors.ipynb (torch 1.4.0 on cpu, numpy).  A storage is *)
(* a flat block of numbers; a view (tensor or ndarray) is a descriptor     *)
(* (storage, offset, shape, strides).  Every action is one call of the     *)
(* notebook, with the result bound to a fresh Python name (a view slot).   *)
(***************************************************************************)
EXTENDS Integers, Sequences, FiniteSets, TLC

\* ---------------------------------------------------------------- bounds
MaxCalls == 3      \* library calls in one run

\* Python names and storages: a run of MaxCalls calls never needs more
Slots == 1..MaxCalls
BufIds == 1..MaxCalls
\* shapes handed to the factory functions; (2,3) is tens, (2,2) is d
AllocShapes == { <<>>, <<0>>, <<1>>, <<2>>, <<2, 2>>, <<2, 3>> }
\* dim / index arguments, negatives and out-of-range values included
DimArgs == -3..3
\* sizes requested from view(); -1 asks for the size to be inferred
ViewDims == {-1, 0, 1, 2, 3, 4}
ViewShapes == UNION { [1..r -> ViewDims] : r \in 0..2 } \cup { <<2, 1, 2>>, <<1, 2, -1>>, <<3, 1, 2>> }
WriteVals == {10, 20}
Fills == {"literal"}
CastKinds == {"int16", "float64"}
Devices == {"cpu", "cuda"}

VARIABLES storage, views, last, pyobj, ncalls
vars == <<storage, views, last, pyobj, ncalls>>

\* ---------------------------------------------------------------- helpers
NoView == [buf |-> 0, offset |-> 0, shape |-> <<>>, strides |-> <<>>]
NoBuf == [alive |-> FALSE, data |-> <<>>, kind |-> "none"]
NoObj == [tag |-> "none", vals |-> <<>>]

Max(a, b) == IF a >= b THEN a ELSE b

RECURSIVE Prod(_)
Prod(s) == IF s = <<>> THEN 1 ELSE Head(s) * Prod(Tail(s))

\* numel(): the number of elements a shape denotes
Numel(shape) == Prod(shape)

RECURSIVE Dot(_, _)
Dot(idx, strides) ==
  IF idx = <<>> THEN 0 ELSE Head(idx) * Head(strides) + Dot(Tail(idx), Tail(strides))

\* the multi-index of the k-th element (k from 0) in logical, row-major order
RECURSIVE Unravel(_, _)
Unravel(k, shape) ==
  IF shape = <<>> THEN <<>>
  ELSE LET inner == Prod(Tail(shape))
       IN <<(k \div inner) % Head(shape)>> \o Unravel(k % inner, Tail(shape))

\* the valid multi-indices of a shape, in logical order
Indices(shape) == { Unravel(k, shape) : k \in 0..(Numel(shape) - 1) }

\* storage position of a multi-index: offset + sum index[i] * strides[i]
Flat(v, idx) == v.offset + Dot(idx, v.strides)

\* strides of a freshly allocated (contiguous, row-major) tensor
RECURSIVE ContigStrides(_)
ContigStrides(shape) ==
  IF shape = <<>> THEN <<>>
  ELSE LET rest == ContigStrides(Tail(shape))
       IN IF rest = <<>> THEN <<1>>
          ELSE <<Max(shape[2], 1) * Head(rest)>> \o rest

\* the elements of a view in logical order (what tolist() and a copy see)
Logical(v, data) ==
  [k \in 1..Numel(v.shape) |-> data[Flat(v, Unravel(k - 1, v.shape)) + 1]]

\* numeric conversion to an element kind (int16 wraps to 16 bits, two's complement)
Convert(kind, x) ==
  IF kind = "int16" THEN ((x + 32768) % 65536) - 32768 ELSE x

Live(i) == views[i] # NoView
LiveSlots == { i \in Slots : Live(i) }
FreeSlot == IF \E i \in Slots : ~Live(i)
            THEN CHOOSE i \in Slots : ~Live(i) /\ \A j \in Slots : j < i => Live(j)
            ELSE 0
FreeBuf == IF \E b \in BufIds : ~storage[b].alive
           THEN CHOOSE b \in BufIds : ~storage[b].alive /\ \A c \in BufIds : c < b => storage[c].alive
           ELSE 0

\* what a call returns: an exception, a view of the storage it was given
\* (alias), or a tensor over a storage of its own (fresh; buf is set when the
\* storage is allocated)
Fail == [ok |-> FALSE, fresh |-> FALSE, view |-> NoView, data |-> <<>>, kind |-> "none"]
Ok(v) == [ok |-> TRUE, fresh |-> FALSE, view |-> v, data |-> <<>>, kind |-> "none"]
New(shape, data, kind) ==
  [ok |-> TRUE, fresh |-> TRUE,
   view |-> [buf |-> 0, offset |-> 0, shape |-> shape, strides |-> ContigStrides(shape)],
   data |-> data, kind |-> kind]

\* ---------------------------------------------------------------- library calls
\* dimension wrapping: a dim d of a rank-r tensor is valid in [-r, r) and a
\* negative d counts from the end (rank 0 is treated as rank 1)
DimOk(d, r) == d >= 0 - Max(r, 1) /\ d <= Max(r, 1) - 1
WrapDim(d, r) == IF d < 0 THEN d + Max(r, 1) ELSE d

Swap(s, a, b) == [k \in 1..Len(s) |-> IF k = a THEN s[b] ELSE IF k = b THEN s[a] ELSE s[k]]

\* transpose that exchanges the strides and leaves the shape as it was
transpose_keeps_shape(v, dim0, dim1) ==
  LET r == Len(v.shape)
  IN IF ~(DimOk(dim0, r) /\ DimOk(dim1, r)) THEN Fail
     ELSE LET a == WrapDim(dim0, r) + 1
              b == WrapDim(dim1, r) + 1
          IN IF a = b THEN Ok(v)
             ELSE Ok([v EXCEPT !.strides = Swap(v.strides, a, b)])

\* transpose whose stride exchange lost its temporary: both entries end equal
transpose_lost_stride(v, dim0, dim1) ==
  LET r == Len(v.shape)
  IN IF ~(DimOk(dim0, r) /\ DimOk(dim1, r)) THEN Fail
     ELSE LET a == WrapDim(dim0, r) + 1
              b == WrapDim(dim1, r) + 1
          IN IF a = b THEN Ok(v)
             ELSE Ok([v EXCEPT !.shape = Swap(v.shape, a, b),
                               !.strides = [v.strides EXCEPT ![a] = v.strides[b]]])

\* transpose that rejects negative dims
transpose_no_wrap(v, dim0, dim1) ==
  LET r == Len(v.shape)
  IN IF ~(dim0 >= 0 /\ dim0 < r /\ dim1 >= 0 /\ dim1 < r) THEN Fail
     ELSE IF dim0 = dim1 THEN Ok(v)
     ELSE Ok([v EXCEPT !.shape = Swap(v.shape, dim0 + 1, dim1 + 1),
                       !.strides = Swap(v.strides, dim0 + 1, dim1 + 1)])

\* c.transpose(dim0, dim1)
transpose(v, dim0, dim1) ==
  LET r == Len(v.shape)
  IN IF ~(DimOk(dim0, r) /\ DimOk(dim1, r)) THEN Fail
     ELSE LET a == WrapDim(dim0, r) + 1
              b == WrapDim(dim1, r) + 1
          IN IF a = b THEN Ok(v)
             ELSE Ok([v EXCEPT !.shape = Swap(v.shape, a, b),
                               !.strides = Swap(v.strides, a, b)])


\* tens[i]: integer index on the first dimension
getitem(v, i) ==
  LET r == Len(v.shape)
  IN IF r = 0 THEN Fail
     ELSE IF i < 0 - v.shape[1] \/ i >= v.shape[1] THEN Fail
     ELSE LET k == IF i < 0 THEN i + v.shape[1] ELSE i
          IN Ok([v EXCEPT !.offset = v.offset + k * v.strides[1],
                          !.shape = Tail(v.shape),
                          !.strides = Tail(v.strides)])

InsertAt(s, p, x) == SubSeq(s, 1, p - 1) \o <<x>> \o SubSeq(s, p, Len(s))
RemoveAt(s, p) == SubSeq(s, 1, p - 1) \o SubSeq(s, p + 1, Len(s))

\* d.unsqueeze(dim)
unsqueeze(v, dim) ==
  LET r == Len(v.shape)
  IN IF ~DimOk(dim, r + 1) THEN Fail
     ELSE LET d == WrapDim(dim, r + 1)
              st == IF d >= r THEN 1 ELSE v.shape[d + 1] * v.strides[d + 1]
          IN Ok([v EXCEPT !.shape = InsertAt(v.shape, d + 1, 1),
                          !.strides = InsertAt(v.strides, d + 1, st)])

\* d.squeeze(dim)
squeeze(v, dim) ==
  LET r == Len(v.shape)
  IN IF ~DimOk(dim, r) THEN Fail
     ELSE LET d == WrapDim(dim, r)
          IN IF r = 0 \/ v.shape[d + 1] # 1 THEN Ok(v)
             ELSE Ok([v EXCEPT !.shape = RemoveAt(v.shape, d + 1),
                               !.strides = RemoveAt(v.strides, d + 1)])

\* the size view() works with: a single -1 is inferred from the element count
InferSize(shape, numel) ==
  LET infer == { k \in 1..Len(shape) : shape[k] = -1 }
      newsize == Prod([k \in 1..Len(shape) |-> IF shape[k] = -1 THEN 1 ELSE shape[k]])
  IN IF Cardinality(infer) > 1 \/ (\E k \in 1..Len(shape) : shape[k] < -1)
     THEN [ok |-> FALSE, shape |-> <<>>]
     ELSE IF numel = newsize \/ (infer # {} /\ newsize > 0 /\ numel % newsize = 0)
     THEN IF infer # {}
          THEN IF newsize = 0 THEN [ok |-> FALSE, shape |-> <<>>]
               ELSE [ok |-> TRUE,
                     shape |-> [k \in 1..Len(shape) |->
                                  IF shape[k] = -1 THEN numel \div newsize ELSE shape[k]]]
          ELSE [ok |-> TRUE, shape |-> shape]
     ELSE [ok |-> FALSE, shape |-> <<>>]

NoStride == [ok |-> FALSE, strides |-> <<>>]

\* the inner loop of the stride computation: consume view dimensions until
\* they cover the current chunk of the tensor
RECURSIVE ChunkFill(_, _, _, _, _, _)
ChunkFill(newshape, vd, vn, nst, tn, cbs) ==
  IF vd >= 1 /\ (vn < tn \/ newshape[vd] = 1)
  THEN ChunkFill(newshape, vd - 1, vn * newshape[vd], [nst EXCEPT ![vd] = vn * cbs], tn, cbs)
  ELSE [vd |-> vd, vn |-> vn, nst |-> nst]

\* the outer loop: walk the tensor's dimensions from the last, cutting it
\* into chunks that are contiguous in themselves
RECURSIVE ChunkWalk(_, _, _, _, _, _, _, _, _)
ChunkWalk(oldshape, oldstride, newshape, td, vd, cbs, tn0, vn, nst) ==
  IF td = 0
  THEN IF vd = 0 THEN [ok |-> TRUE, strides |-> nst] ELSE NoStride
  ELSE LET tn == tn0 * oldshape[td]
       IN IF td = 1 \/ (oldshape[td - 1] # 1 /\ oldstride[td - 1] # tn * cbs)
          THEN LET w == ChunkFill(newshape, vd, vn, nst, tn, cbs)
               IN IF w.vn # tn THEN NoStride
                  ELSE IF td > 1
                  THEN ChunkWalk(oldshape, oldstride, newshape, td - 1, w.vd,
                                 oldstride[td - 1], 1, 1, w.nst)
                  ELSE ChunkWalk(oldshape, oldstride, newshape, 0, w.vd, cbs, tn, w.vn, w.nst)
          ELSE ChunkWalk(oldshape, oldstride, newshape, td - 1, vd, cbs, tn, vn, nst)

\* stride computation that takes every tensor for contiguous
computeStride_contiguous(oldshape, oldstride, newshape) ==
  [ok |-> TRUE, strides |-> ContigStrides(newshape)]

\* the strides that express newshape over the same elements, if any
computeStride(oldshape, oldstride, newshape) ==
  IF oldshape = <<>> THEN [ok |-> TRUE, strides |-> [k \in 1..Len(newshape) |-> 1]]
  ELSE IF Numel(oldshape) = 0 /\ oldshape = newshape THEN [ok |-> TRUE, strides |-> oldstride]
  ELSE IF Numel(oldshape) = 0 THEN [ok |-> TRUE, strides |-> ContigStrides(newshape)]
  ELSE ChunkWalk(oldshape, oldstride, newshape, Len(oldshape), Len(newshape),
                 oldstride[Len(oldstride)], 1, 1, [k \in 1..Len(newshape) |-> 0])

\* view that forgets the storage offset of its tensor
view_offset0(v, shape) ==
  LET inf == InferSize(shape, Numel(v.shape))
  IN IF ~inf.ok THEN Fail
     ELSE LET st == computeStride(v.shape, v.strides, inf.shape)
          IN IF ~st.ok THEN Fail
             ELSE Ok([v EXCEPT !.offset = 0, !.shape = inf.shape, !.strides = st.strides])

\* d.view(*shape)
view(v, shape) ==
  LET inf == InferSize(shape, Numel(v.shape))
  IN IF ~inf.ok THEN Fail
     ELSE LET st == computeStride(v.shape, v.strides, inf.shape)
          IN IF ~st.ok THEN Fail
             ELSE Ok([v EXCEPT !.shape = inf.shape, !.strides = st.strides])

\* torch.ones(*shape) / torch.tensor(literal): the literal holds 0, 1, 2, ...
factory(shape, fill) ==
  New(shape,
      [k \in 1..Numel(shape) |-> IF fill = "ones" THEN 1 ELSE k - 1],
      IF fill = "ones" THEN "float32" ELSE "int64")

\* tens.numpy(): an ndarray over the tensor's storage
numpy(v) == Ok(v)

\* torch.tensor that wraps its argument the way torch.from_numpy does
tensor_alias(v, b) == Ok(v)

\* torch.tensor(arr): always a copy, in the logical order of arr
tensor(v, b) == New(v.shape, Logical(v, b.data), b.kind)

\* .short() / .double(): the tensor itself when it already has the kind
cast(v, b, kind) ==
  IF b.kind = kind THEN Ok(v)
  ELSE New(v.shape, [k \in 1..Numel(v.shape) |-> Convert(kind, Logical(v, b.data)[k])], kind)

\* .to(device) / .cpu(): every tensor of the notebook lives on cpu, the only
\* device present; the tensor itself is returned when it is already there
to(v, device) == IF device = "cpu" THEN Ok(v) ELSE Fail

\* element write that forgets the storage offset of its view
setitem_offset0(v, data, kind, idx, val) ==
  [data EXCEPT ![Dot(idx, v.strides) + 1] = Convert(kind, val)]

\* tens[idx] = val: the storage contents after the element write
setitem(v, data, kind, idx, val) == [data EXCEPT ![Flat(v, idx) + 1] = Convert(kind, val)]

\* d.fill_(val): the storage contents after writing every element of the view
fill_(v, data, kind, val) ==
  [p \in 1..Len(data) |->
     IF \E idx \in Indices(v.shape) : Flat(v, idx) + 1 = p THEN Convert(kind, val) ELSE data[p]]

\* item() that reads the first element of the storage
item_first(v, data) ==
  IF Numel(v.shape) = 1
  THEN [ok |-> TRUE, val |-> data[1]]
  ELSE [ok |-> FALSE, val |-> 0]

\* tens.item()
item(v, data) ==
  IF Numel(v.shape) = 1
  THEN [ok |-> TRUE, val |-> data[Flat(v, [k \in 1..Len(v.shape) |-> 0]) + 1]]
  ELSE [ok |-> FALSE, val |-> 0]

\* tens.tolist(): the elements in logical order, as Python numbers
tolist(v, data) == Logical(v, data)

\* release that frees the storage with the first name to go
release_always(st, vs, i) ==
  [b \in BufIds |-> IF st[b].alive /\ vs[i].buf = b THEN NoBuf ELSE st[b]]

\* the storages once the name in slot i is gone: a storage no remaining
\* view references is released
release(st, vs, i) ==
  [b \in BufIds |->
     IF st[b].alive /\ vs[i].buf = b /\ ~(\E j \in Slots : j # i /\ vs[j].buf = b)
     THEN NoBuf ELSE st[b]]

Init ==
  /\ storage = [b \in BufIds |-> NoBuf]
  /\ views = [i \in Slots |-> NoView]
  /\ last = [op |-> "init", src |-> 0, dst |-> 0, buf |-> 0, err |-> "none"]
  /\ pyobj = NoObj
  /\ ncalls = 0

\* every call counts against the bound of the run
Tick == ncalls < MaxCalls /\ ncalls' = ncalls + 1

\* the storage a live view is over
Buf(i) == storage[views[i].buf]

\* bind the result r of call op on the name in slot i (0: no tensor argument):
\* an exception leaves everything as it was, a fresh result gets a storage
\* of its own, an alias shares the storage of its view
Bind(op, i, r, err) ==
  /\ Tick
  /\ IF ~r.ok
     THEN /\ UNCHANGED <<storage, views>>
          /\ last' = [op |-> op, src |-> i, dst |-> 0, buf |-> 0, err |-> err]
     ELSE /\ FreeSlot # 0
          /\ IF r.fresh
             THEN /\ FreeBuf # 0
                  /\ storage' = [storage EXCEPT ![FreeBuf] =
                                   [alive |-> TRUE, data |-> r.data, kind |-> r.kind]]
                  /\ views' = [views EXCEPT ![FreeSlot] = [r.view EXCEPT !.buf = FreeBuf]]
             ELSE /\ storage' = storage
                  /\ views' = [views EXCEPT ![FreeSlot] = r.view]
          /\ last' = [op |-> op, src |-> i, dst |-> FreeSlot, buf |-> views'[FreeSlot].buf,
                      err |-> "none"]
  /\ UNCHANGED pyobj

Allocate(shape, fill) == Bind("allocate", 0, factory(shape, fill), "RuntimeError")

Transpose(i, dim0, dim1) ==
  Live(i) /\ Bind("transpose", i, transpose(views[i], dim0, dim1), "IndexError")

GetItem(i, k) ==
  Live(i) /\ Bind("getitem", i, getitem(views[i], k), "IndexError")

Unsqueeze(i, dim) ==
  Live(i) /\ Bind("unsqueeze", i, unsqueeze(views[i], dim), "IndexError")

Squeeze(i, dim) ==
  Live(i) /\ Bind("squeeze", i, squeeze(views[i], dim), "IndexError")

View(i, shape) ==
  Live(i) /\ Bind("view", i, view(views[i], shape), "RuntimeError")

Numpy(i) ==
  Live(i) /\ Bind("numpy", i, numpy(views[i]), "RuntimeError")

Tensor(i) ==
  Live(i) /\ Bind("tensor", i, tensor(views[i], Buf(i)), "RuntimeError")

Cast(i, kind) ==
  Live(i) /\ Bind("cast", i, cast(views[i], Buf(i), kind), "RuntimeError")

To(i, device) ==
  Live(i) /\ Bind("to", i, to(views[i], device), "RuntimeError")

SetItem(i, idx, val) ==
  /\ Tick
  /\ Live(i)
  /\ idx \in Indices(views[i].shape)
  /\ storage' = [storage EXCEPT ![views[i].buf].data =
                   setitem(views[i], Buf(i).data, Buf(i).kind, idx, val)]
  /\ last' = [op |-> "setitem", src |-> i, dst |-> 0, buf |-> views[i].buf, err |-> "none"]
  /\ UNCHANGED <<views, pyobj>>

Fill(i, val) ==
  /\ Tick
  /\ Live(i)
  /\ storage' = [storage EXCEPT ![views[i].buf].data =
                   fill_(views[i], Buf(i).data, Buf(i).kind, val)]
  /\ last' = [op |-> "fill_", src |-> i, dst |-> 0, buf |-> views[i].buf, err |-> "none"]
  /\ UNCHANGED <<views, pyobj>>

Item(i) ==
  /\ Tick
  /\ Live(i)
  /\ LET r == item(views[i], Buf(i).data)
     IN IF r.ok
        THEN /\ pyobj' = [tag |-> "item", vals |-> <<r.val>>]
             /\ last' = [op |-> "item", src |-> i, dst |-> 0, buf |-> views[i].buf, err |-> "none"]
        ELSE /\ pyobj' = pyobj
             /\ last' = [op |-> "item", src |-> i, dst |-> 0, buf |-> views[i].buf,
                         err |-> "ValueError"]
  /\ UNCHANGED <<storage, views>>

ToList(i) ==
  /\ Tick
  /\ Live(i)
  /\ pyobj' = [tag |-> "list", vals |-> tolist(views[i], Buf(i).data)]
  /\ last' = [op |-> "tolist", src |-> i, dst |-> 0, buf |-> views[i].buf, err |-> "none"]
  /\ UNCHANGED <<storage, views>>

\* a name is rebound or a temporary dies
Drop(i) ==
  /\ Tick
  /\ Live(i)
  /\ views' = [views EXCEPT ![i] = NoView]
  /\ storage' = release(storage, views, i)
  /\ last' = [op |-> "drop", src |-> i, dst |-> 0, buf |-> views[i].buf, err |-> "none"]
  /\ UNCHANGED pyobj

Next ==
  \/ \E shape \in AllocShapes, fill \in Fills : Allocate(shape, fill)
  \/ \E i \in Slots, k \in DimArgs : GetItem(i, k)
  \/ \E i \in Slots, a \in DimArgs, b \in DimArgs : Transpose(i, a, b)
  \/ \E i \in Slots, d \in DimArgs : Unsqueeze(i, d)
  \/ \E i \in Slots, d \in DimArgs : Squeeze(i, d)
  \/ \E i \in Slots, shape \in ViewShapes : View(i, shape)
  \/ \E i \in Slots : Numpy(i)
  \/ \E i \in Slots : Tensor(i)
  \/ \E i \in Slots, kind \in CastKinds : Cast(i, kind)
  \/ \E i \in Slots, device \in Devices : To(i, device)
  \/ \E i \in Slots : \E idx \in Indices(views[i].shape), val \in WriteVals : SetItem(i, idx, val)
  \/ \E i \in Slots : Fill(i, 33)
  \/ \E i \in Slots : Item(i)
  \/ \E i \in Slots : ToList(i)
  \/ \E i \in Slots : Drop(i)

Spec == Init /\ [][Next]_vars

\* ---------------------------------------------------------------- properties
Cap(b) == Len(storage[b].data)

\* the element of the storage a multi-index of a live view reads
Read(st, v, idx) == st[v.buf].data[Flat(v, idx) + 1]

\* storage position of the k-th element (k from 0) in logical order
Place(v, k) == Flat(v, Unravel(k, v.shape))

AliasOps == {"numpy", "getitem", "transpose", "view", "squeeze", "unsqueeze"}
ShapeOps == {"getitem", "transpose", "view", "squeeze", "unsqueeze"}
WriteOps == {"setitem", "fill_"}

\* C1: a view made by numpy(), indexing, transpose, view, squeeze or unsqueeze
\* is over the storage of its source, and an element written through one view
\* is read back through every view of that storage at every index that maps
\* to the written storage position.
C1_Aliasing ==
  [][ /\ (last'.op \in AliasOps /\ last'.err = "none")
           => views'[last'.dst].buf = views[last'.src].buf
      /\ \A i \in {last'.src} \cap Slots : \A idx \in Indices(views[i].shape), val \in WriteVals :
           (last'.op = "setitem" /\ SetItem(i, idx, val))
           => \A j \in Slots :
                (Live(j) /\ views[j].buf = views[i].buf)
                => \A idx2 \in Indices(views[j].shape) :
                     Flat(views[j], idx2) = Flat(views[i], idx)
                     => Read(storage', views'[j], idx2) = val ]_vars

\* a write through one view is read through another, differently shaped view
C1_Witness ==
  /\ last.op = "setitem"
  /\ \E j \in Slots :
       /\ j # last.src /\ Live(j)
       /\ views[j].buf = views[last.src].buf
       /\ views[j].shape # views[last.src].shape
       /\ views[j].offset > 0
       /\ \E idx2 \in Indices(views[j].shape) : Read(storage, views[j], idx2) \in WriteVals

\* C2: torch.tensor(arr) returns a tensor over a storage of its own that holds
\* arr's elements in logical order; from then on no write through any view
\* changes a storage other than the one the view is over.
C2_CopyIndependence ==
  [][ /\ \A i \in {last'.src} \cap Slots :
           (last'.op = "tensor" /\ Tensor(i))
           => LET c == views'[last'.dst]
              IN /\ last'.err = "none"
                 /\ ~storage[c.buf].alive
                 /\ \A j \in Slots : Live(j) => views[j].buf # c.buf
                 /\ c.shape = views[i].shape
                 /\ Logical(c, storage'[c.buf].data) = Logical(views[i], Buf(i).data)
                 /\ \A b \in BufIds : b # c.buf => storage'[b] = storage[b]
      /\ last'.op \in WriteOps
           => \A b \in BufIds : b # views[last'.src].buf => storage'[b] = storage[b] ]_vars

\* a write through the source after the copy was made: the copy keeps the
\* elements the source no longer has
C2_Witness ==
  /\ last.op = "setitem"
  /\ \E j \in Slots :
       /\ Live(j) /\ views[j].buf # last.buf
       /\ views[j].shape = views[last.src].shape
       /\ Numel(views[j].shape) > 1
       /\ storage[views[j].buf].data = [k \in 1..Cap(views[j].buf) |-> k - 1]
       /\ Cap(last.buf) = Cap(views[j].buf)
       /\ storage[last.buf].data # storage[views[j].buf].data

\* C3: every valid multi-index of every live view maps into [0, capacity) of
\* the storage the view is over.
C3_InBounds ==
  \A i \in Slots :
    Live(i) => \A idx \in Indices(views[i].shape) :
                 Flat(views[i], idx) >= 0 /\ Flat(views[i], idx) < Cap(views[i].buf)

\* a strided row of a transposed tensor: offset and stride both at work
C3_Witness ==
  \E i \in Slots :
    /\ Live(i)
    /\ Len(views[i].shape) = 1 /\ views[i].shape[1] > 1
    /\ views[i].strides[1] > 1
    /\ views[i].offset > 0
    /\ last.op = "getitem" /\ last.dst = i

\* C4: no live view is over a released storage: a storage is released only
\* when the last name referring to it goes.
C4_BufferLifetime ==
  \A i \in Slots : Live(i) => storage[views[i].buf].alive

\* one of two names of a storage was dropped and the other still reads it
C4_Witness ==
  /\ last.op = "drop"
  /\ \E j \in Slots : Live(j) /\ views[j].buf = last.buf /\ storage[last.buf].alive

\* C5: .short()/.double()/.to()/.cpu() always return a tensor over a newly
\* allocated storage, never one over the storage of their source.
C5_CastAlwaysCopies ==
  [][ (last'.op \in {"cast", "to"} /\ last'.err = "none")
        => /\ views'[last'.dst].buf # views[last'.src].buf
           /\ ~storage[views'[last'.dst].buf].alive ]_vars

\* ---- view()
\* the shapes a request stands for: -1 is the one size that makes the element
\* counts agree
Resolve(shape, numel) ==
  LET infer == { k \in 1..Len(shape) : shape[k] = -1 }
  IN IF Cardinality(infer) > 1 \/ (\E k \in 1..Len(shape) : shape[k] < -1) THEN {}
     ELSE { s \in { [k \in 1..Len(shape) |-> IF shape[k] = -1 THEN n ELSE shape[k]] :
                      n \in 0..Max(numel, 1) } :
              Prod(s) = numel }

\* whether strides exist under which shape s names the elements of v in the
\* same logical order: the stride of a dimension longer than 1 can only be
\* the distance between its first two elements
StepOf(v, s, d) ==
  IF s[d] > 1 THEN Place(v, Prod(SubSeq(s, d + 1, Len(s)))) - Place(v, 0) ELSE 0

Reinterprets(v, s) ==
  \A k \in 0..(Numel(s) - 1) :
    v.offset + Dot(Unravel(k, s), [d \in 1..Len(s) |-> StepOf(v, s, d)]) = Place(v, k)

Expressible(v, shape) ==
  LET R == Resolve(shape, Numel(v.shape))
  IN Cardinality(R) = 1 /\ \A s \in R : Reinterprets(v, s)

\* what C6 says of the call view(shape) on a view v
ViewLaw(v, shape) ==
  LET r == view(v, shape)
  IN IF Expressible(v, shape)
     THEN /\ r.ok /\ ~r.fresh
          /\ r.view.buf = v.buf
          /\ r.view.shape \in Resolve(shape, Numel(v.shape))
          /\ \A k \in 0..(Numel(v.shape) - 1) : Place(r.view, k) = Place(v, k)
     ELSE ~r.ok

\* the live views a further call can be made on
Callable == IF ncalls < MaxCalls THEN LiveSlots ELSE {}

\* C6: view(shape) never copies: when the strides of the tensor let shape be
\* expressed over the same elements it returns a view of the same storage
\* with these elements in the same logical order; otherwise it raises, and
\* no view is created and nothing changes.
C6_ViewNeverCopies ==
  /\ [](\A i \in Callable, shape \in ViewShapes : ViewLaw(views[i], shape))
  /\ [][ last'.op = "view"
           => /\ storage' = storage
              /\ \A j \in Slots : Live(j) => views'[j] = views[j]
              /\ IF last'.err = "none"
                 THEN \E shape \in ViewShapes :
                        view(views[last'.src], shape) = Ok(views'[last'.dst])
                 ELSE /\ last'.err = "RuntimeError"
                      /\ views' = views
                      /\ \E shape \in ViewShapes : ~view(views[last'.src], shape).ok ]_vars

NonContiguous(v) ==
  /\ Len(v.shape) = 2 /\ v.shape[1] > 1 /\ v.shape[2] > 1
  /\ v.strides[1] < v.strides[2]

\* view() raised on a transposed tensor
C6_Witness ==
  /\ last.op = "view" /\ last.err = "RuntimeError"
  /\ NonContiguous(views[last.src])

\* C7: transpose, view, squeeze, unsqueeze and indexing leave every storage
\* and every existing view as they were and allocate nothing; the view they
\* return maps its indices one-to-one into the storage of its source.
C7_ShapeOpsFrame ==
  [][ last'.op \in ShapeOps
        => /\ storage' = storage
           /\ \A j \in Slots : Live(j) => views'[j] = views[j]
           /\ last'.err # "none" => views' = views
           /\ last'.err = "none"
                => LET w == views'[last'.dst]
                   IN /\ w.buf = views[last'.src].buf
                      /\ \A j \in Slots : j # last'.dst => views'[j] = views[j]
                      /\ \A x \in Indices(w.shape) :
                           /\ Flat(w, x) >= 0 /\ Flat(w, x) < Cap(w.buf)
                           /\ \A y \in Indices(w.shape) : Flat(w, x) = Flat(w, y) => x = y ]_vars

\* unsqueeze of a transposed tensor: a rank-3 view with a size-1 dimension
C7_Witness ==
  /\ last.op \in {"unsqueeze", "squeeze"} /\ last.err = "none"
  /\ NonContiguous(views[last.src])
  /\ views[last.dst] # views[last.src]
  /\ Numel(views[last.dst].shape) > 1

\* ---- transpose
\* what C8 says of the call transpose(a, b) on a view v, given whether the
\* dims are valid and the (1-based) entries p and q they name
TransposeLaw(v, a, b, valid, p, q) ==
  LET r == Len(v.shape)
      t == transpose(v, a, b)
      w == t.view
  IN IF valid
     THEN /\ t.ok /\ ~t.fresh
          /\ w.buf = v.buf /\ w.offset = v.offset
          /\ Len(w.shape) = r /\ Len(w.strides) = r
          /\ r > 0 => /\ w.shape[p] = v.shape[q] /\ w.shape[q] = v.shape[p]
                      /\ w.strides[p] = v.strides[q] /\ w.strides[q] = v.strides[p]
          /\ \A k \in 1..r : k \notin {p, q}
               => w.shape[k] = v.shape[k] /\ w.strides[k] = v.strides[k]
          /\ transpose(w, a, b) = Ok(v)
     ELSE ~t.ok

\* a transpose call binds what transpose returns, raises IndexError when it
\* fails, and changes nothing else
TransposeStep ==
  last'.op = "transpose"
    => /\ storage' = storage
       /\ \A j \in Slots : Live(j) => views'[j] = views[j]
       /\ IF last'.err = "none"
          THEN \E a \in DimArgs, b \in DimArgs :
                 transpose(views[last'.src], a, b) = Ok(views'[last'.dst])
          ELSE /\ last'.err = "IndexError"
               /\ views' = views
               /\ \E a \in DimArgs, b \in DimArgs : ~transpose(views[last'.src], a, b).ok

InZeroToRank(d, r) == d >= 0 /\ d < r

\* C8 as stated: dims are valid exactly in [0, r)
C8_TransposeOriginal ==
  /\ [](\A i \in Callable, a \in DimArgs, b \in DimArgs :
          LET r == Len(views[i].shape)
          IN TransposeLaw(views[i], a, b, InZeroToRank(a, r) /\ InZeroToRank(b, r), a + 1, b + 1))
  /\ [][TransposeStep]_vars

InWrapRange(d, r) == d >= 0 - Max(r, 1) /\ d < Max(r, 1)
FromEnd(d, r) == (IF d < 0 THEN d + Max(r, 1) ELSE d) + 1

\* C8 (amended): transpose(a, b) keeps storage and offset and exchanges exactly
\* the shape and stride entries at a and b; applied twice it gives the view
\* back; it raises IndexError exactly when a dim is outside [-r, r) (outside
\* [-1, 0] for rank 0), a negative dim d standing for d + r.
C8_Transpose ==
  /\ [](\A i \in Callable, a \in DimArgs, b \in DimArgs :
          LET r == Len(views[i].shape)
          IN TransposeLaw(views[i], a, b, InWrapRange(a, r) /\ InWrapRange(b, r),
                          FromEnd(a, r), FromEnd(b, r)))
  /\ [][TransposeStep]_vars

\* a transpose that changed the view of a non-square tensor
C8_Witness ==
  /\ last.op = "transpose" /\ last.err = "none"
  /\ Len(views[last.src].shape) = 2
  /\ views[last.dst].shape # views[last.src].shape
  /\ views[last.dst].shape = <<views[last.src].shape[2], views[last.src].shape[1]>>

\* C9: when view(shape) succeeds, view back to the shape of the source
\* succeeds too, over the same storage, with the elements of the source in
\* their logical order.
C9_ViewRoundTrip ==
  \A i \in Callable, shape \in ViewShapes :
    LET v == views[i]
        there == view(v, shape)
        back == view(there.view, v.shape)
    IN there.ok
       => /\ back.ok /\ ~back.fresh
          /\ back.view.buf = v.buf
          /\ back.view.shape = v.shape
          /\ Logical(back.view, Buf(i).data) = Logical(v, Buf(i).data)

\* a view that changed the rank of a row or column of a tensor
C9_Witness ==
  /\ last.op = "view" /\ last.err = "none"
  /\ views[last.src].offset > 0
  /\ Numel(views[last.src].shape) > 1
  /\ Len(views[last.dst].shape) # Len(views[last.src].shape)
  /\ storage[last.buf].data = [k \in 1..Cap(last.buf) |-> k - 1]

\* C10: item() succeeds exactly on a view of one element and returns the
\* element at the view's offset; it raises on any other view and changes
\* nothing; the number it returned stays as it is under later writes.
C10_Item ==
  [][ /\ \A i \in {last'.src} \cap Slots :
           (last'.op = "item" /\ Item(i))
           => /\ storage' = storage /\ views' = views
              /\ IF Numel(views[i].shape) = 1
                 THEN /\ last'.err = "none"
                      /\ pyobj' = [tag |-> "item", vals |-> <<Buf(i).data[views[i].offset + 1]>>]
                 ELSE /\ last'.err = "ValueError"
                      /\ pyobj' = pyobj
      /\ last'.op \in WriteOps => pyobj' = pyobj ]_vars

\* the element item() read was overwritten afterwards
C10_Witness ==
  /\ last.op \in WriteOps
  /\ pyobj.tag = "item"
  /\ \E i \in Slots :
       /\ Live(i) /\ Numel(views[i].shape) = 1
       /\ Buf(i).data[views[i].offset + 1] # pyobj.vals[1]
       /\ Buf(i).data[views[i].offset + 1] \in WriteVals
====
